---------------------------- MODULE Spec2Model ----------------------------
(***************************************************************************)
(* A model of isfread, the decoder of Tektronix ISF waveform files, in its *)
(* two versions: isfread_py3.py (Python 3, both tag conventions) and       *)
(* isfread.py (Python 2, full tag names only).                             *)
(*                                                                         *)
(* A file is a sequence of bytes (integers 0..255).  Text is a sequence of *)
(* character codes; for the ASCII texts of a preamble the two coincide.    *)
(* Positions are Python's: the first element of a sequence has index 0.    *)
(* Numbers read from the preamble are exact decimals [m, e, f] of value    *)
(* m / 10^e, with f telling a Python float from a Python int; arithmetic   *)
(* on them is exact (the rounding of IEEE doubles is not modelled).        *)
(***************************************************************************)
EXTENDS Integers, Sequences, FiniteSets, TLC

\* ------------------------------------------------------------------------
\* Characters and strings
\* ------------------------------------------------------------------------

\* The ASCII characters of code 32 (space) to 95 (_), in code order.
Chars ==
  << " ", "!", "\"", "#", "$", "%", "&", "'", "(", ")", "*", "+", ",", "-",
     ".", "/", "0", "1", "2", "3", "4", "5", "6", "7", "8", "9", ":", ";",
     "<", "=", ">", "?", "@", "A", "B", "C", "D", "E", "F", "G", "H", "I",
     "J", "K", "L", "M", "N", "O", "P", "Q", "R", "S", "T", "U", "V", "W",
     "X", "Y", "Z", "[", "\\", "]", "^", "_" >>

\* The ASCII lower-case letters, code 97 (a) to 122 (z), in code order.
LowerChars ==
  << "a", "b", "c", "d", "e", "f", "g", "h", "i", "j", "k", "l", "m", "n",
     "o", "p", "q", "r", "s", "t", "u", "v", "w", "x", "y", "z" >>

\* The code of an ASCII character.
Ord(c) ==
  IF \E i \in 1..Len(LowerChars) : LowerChars[i] = c
  THEN 96 + (CHOOSE i \in 1..Len(LowerChars) : LowerChars[i] = c)
  ELSE 31 + (CHOOSE i \in 1..Len(Chars) : Chars[i] = c)

\* The bytes of an ASCII text given character by character (str.encode).
Str(t) == [i \in 1..Len(t) |-> Ord(t[i])]

Min(S) == CHOOSE x \in S : \A y \in S : x <= y
Max(S) == CHOOSE x \in S : \A y \in S : x >= y

\* s[a:b] of Python: negative indices count from the end, both are clamped
\* to the sequence, and an empty range gives the empty sequence.
Slice(s, a, b) ==
  LET n  == Len(s)
      a1 == IF a < 0 THEN Max({a + n, 0}) ELSE Min({a, n})
      b1 == IF b < 0 THEN Max({b + n, 0}) ELSE Min({b, n})
  IN  IF a1 >= b1 THEN << >> ELSE SubSeq(s, a1 + 1, b1)

\* s.find(t, start) of Python: the lowest index i >= start with
\* s[i:i+len(t)] == t, or -1; a negative start counts from the end.
Find(s, t, start) ==
  LET n    == Len(s)
      st   == IF start < 0 THEN Max({start + n, 0}) ELSE start
      hits == { i \in st..(n - Len(t)) : \A j \in 1..Len(t) : s[i + j] = t[j] }
  IN  IF hits = {} THEN -1 ELSE Min(hits)

\* Python's whitespace characters: tab, newline, VT, FF, CR, space.
IsSpace(c) == c \in {9, 10, 11, 12, 13, 32}
IsDigit(c) == c \in 48..57

\* s.lstrip(): s without its leading whitespace.
LStrip(s) ==
  LET keep == { i \in 1..Len(s) : ~IsSpace(s[i]) }
  IN  IF keep = {} THEN << >> ELSE SubSeq(s, Min(keep), Len(s))

\* s.strip(): s without its leading and trailing whitespace.
Strip(s) ==
  LET keep == { i \in 1..Len(s) : ~IsSpace(s[i]) }
  IN  IF keep = {} THEN << >> ELSE SubSeq(s, Min(keep), Max(keep))

\* ------------------------------------------------------------------------
\* Numbers
\* ------------------------------------------------------------------------

RECURSIVE Pow10(_)
Pow10(k) == IF k <= 0 THEN 1 ELSE 10 * Pow10(k - 1)

\* The natural number written by a sequence of decimal digits.
RECURSIVE DigitsToNat(_)
DigitsToNat(ds) ==
  IF ds = << >> THEN 0
  ELSE 10 * DigitsToNat(SubSeq(ds, 1, Len(ds) - 1)) + (ds[Len(ds)] - 48)

AllDigits(ds) == \A i \in 1..Len(ds) : IsDigit(ds[i])

\* An optional sign in front of a text: the sign and the rest.
Signed(t) ==
  IF t # << >> /\ t[1] \in {43, 45}
  THEN [neg |-> t[1] = 45, rest |-> Tail(t)]
  ELSE [neg |-> FALSE, rest |-> t]

\* A Python int as an exact decimal.
IntNum(n) == [m |-> n, e |-> 0, f |-> FALSE]

\* int(s): s stripped of whitespace is an optional sign and one or more
\* digits; anything else raises ValueError (ok = FALSE).
ParseInt(s) ==
  LET sg == Signed(Strip(s))
  IN  IF sg.rest # << >> /\ AllDigits(sg.rest)
      THEN [ok  |-> TRUE,
            num |-> IntNum(IF sg.neg THEN 0 - DigitsToNat(sg.rest)
                           ELSE DigitsToNat(sg.rest))]
      ELSE [ok |-> FALSE, num |-> IntNum(0)]

\* float(s) for a text holding a '.': optional sign, digits with one point
\* among them (at least one digit), and an optional exponent e/E with its
\* own optional sign; anything else raises ValueError.  The value is kept
\* with e >= 0 decimal places.
ParseFloat(s) ==
  LET sg   == Signed(Strip(s))
      body == sg.rest
      xpos == { i \in 1..Len(body) : body[i] \in {69, 101} }
      mant == IF xpos = {} THEN body ELSE SubSeq(body, 1, Min(xpos) - 1)
      xsg  == IF xpos = {} THEN Signed(<< 48 >>)
              ELSE Signed(SubSeq(body, Min(xpos) + 1, Len(body)))
      dot  == { i \in 1..Len(mant) : mant[i] = 46 }
      ip   == IF dot = {} THEN mant ELSE SubSeq(mant, 1, Min(dot) - 1)
      fp   == IF dot = {} THEN << >> ELSE SubSeq(mant, Min(dot) + 1, Len(mant))
      good == /\ AllDigits(ip) /\ AllDigits(fp) /\ Len(ip) + Len(fp) >= 1
              /\ xsg.rest # << >> /\ AllDigits(xsg.rest)
      x    == IF xsg.neg THEN 0 - DigitsToNat(xsg.rest) ELSE DigitsToNat(xsg.rest)
      mag  == DigitsToNat(ip \o fp)
      sm   == IF sg.neg THEN 0 - mag ELSE mag
      pl   == Len(fp) - x
  IN  IF good
      THEN [ok  |-> TRUE,
            num |-> IF pl >= 0 THEN [m |-> sm, e |-> pl, f |-> TRUE]
                    ELSE [m |-> sm * Pow10(0 - pl), e |-> 0, f |-> TRUE]]
      ELSE [ok |-> FALSE, num |-> IntNum(0)]

\* Exact arithmetic on decimals; a result is a float when an operand is.
Add(a, b) ==
  LET k == Max({a.e, b.e})
  IN  [m |-> a.m * Pow10(k - a.e) + b.m * Pow10(k - b.e), e |-> k,
       f |-> a.f \/ b.f]
Sub(a, b) ==
  LET k == Max({a.e, b.e})
  IN  [m |-> a.m * Pow10(k - a.e) - b.m * Pow10(k - b.e), e |-> k,
       f |-> a.f \/ b.f]
Mul(a, b) == [m |-> a.m * b.m, e |-> a.e + b.e, f |-> a.f \/ b.f]

\* Equality by value: == and != of Python on two numbers.
NumEq(a, b) == a.m * Pow10(b.e) = b.m * Pow10(a.e)

\* ------------------------------------------------------------------------
\* The preamble: markers, tag tables and the three extraction rules
\* ------------------------------------------------------------------------

\* Bytes read from the head of the file: FID.read(511).
HeaderLen == 511

\* Bytes of one sample: the struct code 'h', a signed 16-bit integer.
SampleSize == 2

\* The two binary-block markers.
KeyCurv == Str(<< ":", "C", "U", "R", "V", " ", "#" >>)
KeyCurve == Str(<< ":", "C", "U", "R", "V", "E", " ", "#" >>)

Semicolon == Str(<< ";" >>)
Quote == Str(<< "\"" >>)
Dot == Str(<< "." >>)

\* The header's keys, and which extraction rule reads each.
NumKeys == { "bytenum", "bitnum", "xzero", "xincr", "ptoff", "ymult", "yzero",
             "yoff", "npts" }
StrKeys == { "encoding", "binformat", "byteorder", "pointformat" }
QuotedKeys == { "wfid", "xunit", "yunit" }
Keys == NumKeys \cup StrKeys \cup QuotedKeys

\* The tags of the older version (marker ':CURVE #'): full names.
TagsOld ==
  [
    bytenum     |-> Str(<< "B", "Y", "T", "_", "N", "R" >>),
    bitnum      |-> Str(<< "B", "I", "T", "_", "N", "R" >>),
    encoding    |-> Str(<< "E", "N", "C", "D", "G" >>),
    binformat   |-> Str(<< "B", "N", "_", "F", "M", "T" >>),
    byteorder   |-> Str(<< "B", "Y", "T", "_", "O", "R" >>),
    wfid        |-> Str(<< "W", "F", "I", "D" >>),
    pointformat |-> Str(<< "P", "T", "_", "F", "M", "T" >>),
    xunit       |-> Str(<< "X", "U", "N", "I", "T" >>),
    yunit       |-> Str(<< "Y", "U", "N", "I", "T" >>),
    xzero       |-> Str(<< "X", "Z", "E", "R", "O" >>),
    xincr       |-> Str(<< "X", "I", "N", "C", "R" >>),
    ptoff       |-> Str(<< "P", "T", "_", "O", "F", "F" >>),
    ymult       |-> Str(<< "Y", "M", "U", "L", "T" >>),
    yzero       |-> Str(<< "Y", "Z", "E", "R", "O" >>),
    yoff        |-> Str(<< "Y", "O", "F", "F" >>),
    npts        |-> Str(<< "N", "R", "_", "P", "T" >>)
  ]

\* The tags of the newer version (marker ':CURV #'): abbreviated names.
TagsNew ==
  [
    bytenum     |-> Str(<< "B", "Y", "T", "_", "N" >>),
    bitnum      |-> Str(<< "B", "I", "T", "_", "N" >>),
    encoding    |-> Str(<< "E", "N", "C" >>),
    binformat   |-> Str(<< "B", "N", "_", "F" >>),
    byteorder   |-> Str(<< "B", "Y", "T", "_", "O" >>),
    wfid        |-> Str(<< "W", "F", "I" >>),
    pointformat |-> Str(<< "P", "T", "_", "F" >>),
    xunit       |-> Str(<< "X", "U", "N" >>),
    yunit       |-> Str(<< "Y", "U", "N" >>),
    xzero       |-> Str(<< "X", "Z", "E" >>),
    xincr       |-> Str(<< "X", "I", "N" >>),
    ptoff       |-> Str(<< "P", "T", "_", "O" >>),
    ymult       |-> Str(<< "Y", "M", "U" >>),
    yzero       |-> Str(<< "Y", "Z", "E" >>),
    yoff        |-> Str(<< "Y", "O", "F" >>),
    npts        |-> Str(<< "N", "R", "_", "P" >>)
  ]

\* getnum(string, tag): the text from the end of the tag to the next ';',
\* as an int, or as a float if it holds a '.'.  The result of find is used
\* unchecked: with the tag absent n1 is -1.
getnum(string, tag) ==
  LET n1 == Find(string, tag, 0)
      n2 == Find(string, Semicolon, n1)
      s2 == Slice(string, n1 + Len(tag), n2)
  IN  IF Find(s2, Dot, 0) = -1 THEN ParseInt(s2) ELSE ParseFloat(s2)

\* getstr without the lstrip.
getstrNoStrip(string, tag) ==
  LET n1 == Find(string, tag, 0)
      n2 == Find(string, Semicolon, n1)
  IN  Slice(string, n1 + Len(tag), n2)

\* getstr(string, tag): the same span, left-stripped.
getstr(string, tag) ==
  LET n1 == Find(string, tag, 0)
      n2 == Find(string, Semicolon, n1)
  IN  LStrip(Slice(string, n1 + Len(tag), n2))

\* getquotedstr(string, tag): the text between the first two '"' found
\* after the tag's position.
getquotedstr(string, tag) ==
  LET n1 == Find(string, tag, 0)
      n2 == Find(string, Quote, n1 + 1)
      n3 == Find(string, Quote, n2 + 1)
  IN  Slice(string, n2 + 1, n3)

\* The header dictionary built from a text with a tag table: ok is FALSE
\* when an int() or float() of getnum raises ValueError.
Header(string, tags) ==
  LET nums == [k \in NumKeys |-> getnum(string, tags[k])]
  IN  [ok   |-> \A k \in NumKeys : nums[k].ok,
       head |-> [k \in Keys |->
                   IF k \in NumKeys THEN nums[k].num
                   ELSE IF k \in StrKeys THEN getstr(string, tags[k])
                   ELSE getquotedstr(string, tags[k])]]

\* ------------------------------------------------------------------------
\* The binary block and the scaling
\* ------------------------------------------------------------------------

\* dict_endian read with a default: a byte order that is no key is taken
\* as little-endian.
dict_endianDefault(byteorder) ==
  IF byteorder = Str(<< "M", "S", "B" >>) THEN ">" ELSE "<"

\* dict_endian: the struct byte-order character of a byte-order string,
\* "" when the string is no key of the dictionary (KeyError).
dict_endian(byteorder) ==
  IF byteorder = Str(<< "M", "S", "B" >>) THEN ">"
  ELSE IF byteorder = Str(<< "L", "S", "B" >>) THEN "<"
  ELSE ""

\* Int16 that takes every pair as little-endian.
Int16LittleOnly(b0, b1, order) ==
  LET u == b0 + 256 * b1
  IN  IF u >= 32768 THEN u - 65536 ELSE u

\* One 'h' of struct.unpack: the signed 16-bit integer of two bytes.
Int16(b0, b1, order) ==
  LET u == IF order = ">" THEN 256 * b0 + b1 ELSE b0 + 256 * b1
  IN  IF u >= 32768 THEN u - 65536 ELSE u

\* struct.unpack(fmt, string_data) for fmt = order + str(count) + 'h'.
Unpack(order, count, string_data) ==
  [i \in 1..count |->
     Int16(string_data[SampleSize * i - 1], string_data[SampleSize * i], order)]

\* yzero + ymult*(y - yoff)
ScaleY(h, y) == Add(h.yzero, Mul(h.ymult, Sub(IntNum(y), h.yoff)))

\* TimeY with the difference the other way round.
TimeYReversed(h, i) == Add(h.xzero, Mul(h.xincr, Sub(h.ptoff, IntNum(i))))

\* xzero + xincr*(i - ptoff)
TimeY(h, i) == Add(h.xzero, Mul(h.xincr, Sub(IntNum(i), h.ptoff)))

\* xzero + xincr*(i - ptoff)*2
TimeENV(h, i) ==
  Add(h.xzero, Mul(Mul(h.xincr, Sub(IntNum(i), h.ptoff)), IntNum(2)))

\* data[start:len(data):2]
EveryOther(d, start) ==
  [i \in 1..((Len(d) - start + 1) \div 2) |-> d[start + 2 * i - 1]]

\* np.array(rows) for rows of one length: a float among the elements makes
\* every element a float.
NpArray(rows) ==
  LET anyf == \E r \in 1..Len(rows) : \E i \in 1..Len(rows[r]) : rows[r][i].f
  IN  [r \in 1..Len(rows) |->
         [i \in 1..Len(rows[r]) |-> [rows[r][i] EXCEPT !.f = anyf]]]

\* The rows built for point format 'Y'.
RowsY(h, n, d) ==
  << [i \in 1..n |-> TimeY(h, i - 1)],
     [i \in 1..Len(d) |-> ScaleY(h, d[i])] >>

\* The rows built for point format 'ENV'; npts = int(npts / 2.).
RowsENV(h, n, d) ==
  LET half == n \div 2
      mins == EveryOther(d, 0)
      maxs == EveryOther(d, 1)
  IN  << [i \in 1..half |-> TimeENV(h, i - 1)],
         [i \in 1..Len(mins) |-> ScaleY(h, mins[i])],
         [i \in 1..Len(maxs) |-> ScaleY(h, maxs[i])] >>

SameLength(rows) == \A r \in 1..Len(rows) : Len(rows[r]) = Len(rows[1])

\* ------------------------------------------------------------------------
\* Input files
\* ------------------------------------------------------------------------

\* The largest number of points (NR_PT) of a modelled file.
MaxPts == 5

RECURSIVE NatToDigits(_)
NatToDigits(n) ==
  IF n < 10 THEN << 48 + n >>
  ELSE NatToDigits(n \div 10) \o << 48 + (n % 10) >>

\* The order of the fields in a preamble as the instrument writes it.
FieldOrder ==
  << "bytenum", "bitnum", "encoding", "binformat", "byteorder", "npts",
     "wfid", "pointformat", "xincr", "ptoff", "xzero", "xunit", "ymult",
     "yzero", "yoff", "yunit" >>

\* Sample byte pairs the data block is filled with, two cycles of four.
SamplePairs ==
  << << << 10, 0 >>, << 251, 255 >>, << 0, 0 >>, << 100, 0 >> >>,
     << << 1, 2 >>, << 255, 127 >>, << 128, 0 >>, << 0, 128 >> >> >>

RECURSIVE SampleBytes(_, _)
SampleBytes(pat, n) ==
  IF n = 0 THEN << >>
  ELSE SampleBytes(pat, n - 1) \o SamplePairs[pat][((n - 1) % 4) + 1]

\* The description of a file: p.marker is "CURV", "CURVE" or "NONE"; p.full
\* chooses full or abbreviated tag names; p.drop names a field left out;
\* the block length written is SampleSize * p.npts + p.delta; the last p.cut
\* bytes of the data are missing; p.pad lengthens the waveform id.
BaseFile ==
  [marker |-> "CURV", full |-> FALSE, drop |-> "", npts |-> 2, delta |-> 0,
   cut |-> 0, pat |-> 1, pad |-> 0,
   byteorder   |-> << "M", "S", "B" >>,
   pointformat |-> << "Y" >>,
   xzero |-> << "0", ".", "0" >>, xincr |-> << "1", ".", "0" >>,
   ptoff |-> << "0" >>,
   ymult |-> << "2", ".", "0" >>, yzero |-> << "0", ".", "0" >>,
   yoff  |-> << "0" >>]

\* The text of a field's value.
FieldValue(p, k) ==
  CASE k = "bytenum"   -> Str(<< "2" >>)
    [] k = "bitnum"    -> Str(<< "1", "6" >>)
    [] k = "encoding"  -> Str(<< "B", "I", "N" >>)
    [] k = "binformat" -> Str(<< "R", "I" >>)
    [] k = "npts"      -> NatToDigits(p.npts)
    [] k = "wfid"      -> Quote \o Str(<< "C", "h", "1" >>)
                            \o [i \in 1..p.pad |-> 45] \o Quote
    [] k = "xunit"     -> Quote \o Str(<< "s" >>) \o Quote
    [] k = "yunit"     -> Quote \o Str(<< "V" >>) \o Quote
    [] OTHER           -> Str(p[k])

RECURSIVE Fields(_, _)
Fields(p, i) ==
  IF i > Len(FieldOrder) THEN << >>
  ELSE LET k   == FieldOrder[i]
           tag == IF p.full THEN TagsOld[k] ELSE TagsNew[k]
       IN  (IF k = p.drop THEN << >>
            ELSE tag \o << 32 >> \o FieldValue(p, k) \o Semicolon)
           \o Fields(p, i + 1)

\* The written block length and the data bytes present in the file.
BlockLength(p) == NatToDigits(SampleSize * p.npts + p.delta)
BlockData(p) ==
  LET all == SampleBytes(p.pat, p.npts)
  IN  SubSeq(all, 1, IF Len(all) > p.cut THEN Len(all) - p.cut ELSE 0)

\* The bytes of the file: ":WFMPRE:" fields marker digit length data.
Render(p) ==
  Str(<< ":", "W", "F", "M", "P", "R", "E", ":" >>) \o Fields(p, 1)
    \o (IF p.marker = "NONE" THEN << >>
        ELSE (IF p.marker = "CURV" THEN KeyCurv ELSE KeyCurve)
               \o NatToDigits(Len(BlockLength(p))) \o BlockLength(p))
    \o BlockData(p)

\* Files that differ in marker, byte order, point format, number of points,
\* written block length and missing data bytes.
FilesErr ==
  { Render([BaseFile EXCEPT !.marker = mk, !.full = (mk # "CURV"),
                            !.byteorder = bo, !.pointformat = pf,
                            !.npts = n, !.delta = d, !.cut = c]) :
      mk \in {"CURV", "CURVE", "NONE"},
      bo \in { << "M", "S", "B" >>, << "L", "S", "B" >>, << "B", "I", "G" >> },
      pf \in { << "Y" >>, << "E", "N", "V" >>, << "X", "Y" >> },
      n \in 0..MaxPts, d \in {0, 1}, c \in {0, 1} }

\* Files with one field left out of the preamble.
FilesDrop ==
  { Render([BaseFile EXCEPT !.marker = mk, !.full = (mk # "CURV"),
                            !.drop = k]) :
      mk \in {"CURV", "CURVE"}, k \in Keys }

\* Files that differ in the horizontal scaling.
FilesX ==
  { Render([BaseFile EXCEPT !.marker = mk, !.full = (mk # "CURV"),
                            !.pointformat = pf, !.npts = n,
                            !.xzero = xz, !.xincr = xi, !.ptoff = po]) :
      mk \in {"CURV", "CURVE"},
      pf \in { << "Y" >>, << "E", "N", "V" >> },
      n \in (MaxPts - 1)..MaxPts,
      xz \in { << "0", ".", "0" >>, << "-", "1", ".", "5" >> },
      xi \in { << "5", ".", "0", "E", "-", "1" >>, << "2" >>, << "0" >>,
               << "-", "1", ".", "0" >> },
      po \in { << "0" >>, << "2" >>, << "-", "1" >> } }

\* Files that differ in the vertical scaling, the byte order and the samples.
FilesY ==
  { Render([BaseFile EXCEPT !.marker = mk, !.full = (mk # "CURV"),
                            !.pointformat = pf, !.npts = n, !.byteorder = bo,
                            !.ymult = ym, !.yzero = yz, !.yoff = yo,
                            !.pat = pt]) :
      mk \in {"CURV", "CURVE"},
      pf \in { << "Y" >>, << "E", "N", "V" >> },
      n \in (MaxPts - 1)..MaxPts,
      bo \in { << "M", "S", "B" >>, << "L", "S", "B" >> },
      ym \in { << "2", ".", "0" >>, << "-", "0", ".", "5" >> },
      yz \in { << "0", ".", "0" >>, << "1", ".", "5" >> },
      yo \in { << "0" >>, << "-", "3" >> },
      pt \in {1, 2} }

\* Where the data of a file starts.
DataStart(p) == Len(Render(p)) - Len(BlockData(p))

\* Files whose waveform id is so long that the block header lies at the end
\* of the first HeaderLen bytes: the data starts at HeaderLen + k.
FilesLong ==
  { Render([BaseFile EXCEPT !.marker = mk, !.full = (mk # "CURV"),
              !.pad = HeaderLen + k
                        - DataStart([BaseFile EXCEPT !.marker = mk,
                                                     !.full = (mk # "CURV")])]) :
      mk \in {"CURV", "CURVE"}, k \in -1..5 }

\* The fields of the synthetic older-version preamble, in its order.
SyntheticFields ==
  <<
     << Str(<< "N", "R", "_", "P", "T" >>), Str(<< "4" >>) >>,
     << Str(<< "X", "Z", "E", "R", "O" >>), Str(<< "0", ".", "0" >>) >>,
     << Str(<< "X", "I", "N", "C", "R" >>), Str(<< "1", ".", "0" >>) >>,
     << Str(<< "P", "T", "_", "O", "F", "F" >>), Str(<< "0" >>) >>,
     << Str(<< "Y", "M", "U", "L", "T" >>), Str(<< "2", ".", "0" >>) >>,
     << Str(<< "Y", "Z", "E", "R", "O" >>), Str(<< "0", ".", "0" >>) >>,
     << Str(<< "Y", "O", "F", "F" >>), Str(<< "0" >>) >>,
     << Str(<< "B", "Y", "T", "_", "O", "R" >>), Str(<< "L", "S", "B" >>) >>,
     << Str(<< "P", "T", "_", "F", "M", "T" >>), Str(<< "Y" >>) >>,
     << Str(<< "E", "N", "C", "D", "G" >>), Str(<< "B", "I", "N" >>) >>,
     << Str(<< "B", "N", "_", "F", "M", "T" >>), Str(<< "R", "I" >>) >>,
     << Str(<< "B", "Y", "T", "_", "N", "R" >>), Str(<< "2" >>) >>,
     << Str(<< "B", "I", "T", "_", "N", "R" >>), Str(<< "1", "6" >>) >>,
     << Str(<< "W", "F", "I", "D" >>), Str(<< "\"", "t", "e", "s", "t", "\"" >>) >>,
     << Str(<< "X", "U", "N", "I", "T" >>), Str(<< "\"", "s", "\"" >>) >>,
     << Str(<< "Y", "U", "N", "I", "T" >>), Str(<< "\"", "V", "\"" >>) >> >>

RECURSIVE JoinFields(_, _, _)
JoinFields(fs, sep, i) ==
  IF i > Len(fs) THEN << >>
  ELSE fs[i][1] \o sep \o fs[i][2]
         \o (IF i < Len(fs) THEN Semicolon ELSE << >>)
         \o JoinFields(fs, sep, i + 1)

\* The synthetic file: the fields, each tag joined to its value by sep, the
\* marker ':CURVE #18' and the little-endian samples 10, -5, 0, 100.
SyntheticFile(sep) ==
  JoinFields(SyntheticFields, sep, 1) \o KeyCurve \o Str(<< "1", "8" >>)
    \o << 10, 0, 251, 255, 0, 0, 100, 0 >>

FilesSynthetic == { SyntheticFile(Str(<< "=" >>)), SyntheticFile(Str(<< " " >>)) }

Files == FilesErr \cup FilesDrop \cup FilesX \cup FilesY \cup FilesLong
           \cup FilesSynthetic

\* ------------------------------------------------------------------------
\* The state of one call of isfread
\* ------------------------------------------------------------------------

VARIABLES
  impl,                  \* "py3": isfread_py3.isfread, "py2": isfread.isfread
  file,                  \* the bytes of the file named by filename
  pc,                    \* the place in the code; "done": returned,
                         \* "exit": left by an exception or sys.exit
  err,                   \* what the call was left by, "" if not
  handle,                \* fileInput / FID: "none", "open" or "closed"
  fpos,                  \* the position of the file object
  ioLog,                 \* the calls made on the file object, in order
  bytesHeader,           \* bytesHeader / hdata
  intLocationOfColon,    \* intLocationOfColon / ii
  keylength,             \* keylength (8 in isfread.py)
  older_version,         \* older_version
  intNofDigits,          \* intNofDigits / skip
  tagTable,              \* the tag names the header was read with:
                         \* "none" (not read), "old" or "new"
  tupleHeader,           \* << >>, or << tupleHeader >> (<< head >>)
  intNofDataBytes,       \* intNofDataBytes / n1
  fmt,                   \* the struct format: byte order and count
  intCalculatedNofBytes, \* intCalculatedNofBytes / n2
  string_data,           \* the bytes of the data block read
  data,                  \* the unpacked samples
  ndarrayValue           \* << >>, or the rows returned

vars ==
  << impl, file, pc, err, handle, fpos, ioLog, bytesHeader,
     intLocationOfColon, keylength, older_version, intNofDigits, tagTable,
     tupleHeader, intNofDataBytes, fmt, intCalculatedNofBytes, string_data, data,
     ndarrayValue >>

ioVars == << handle, fpos, ioLog >>
markVars == << intLocationOfColon, keylength, older_version, intNofDigits >>
headVars == << tagTable, tupleHeader >>
outVars == << fmt, intCalculatedNofBytes, string_data, data, ndarrayValue >>

NoFmt == [order |-> "", count |-> 0]

Init ==
  /\ impl \in {"py3", "py2"}
  /\ file \in Files
  /\ pc = "open"
  /\ err = ""
  /\ handle = "none"
  /\ fpos = 0
  /\ ioLog = << >>
  /\ bytesHeader = << >>
  /\ intLocationOfColon = -1
  /\ keylength = 0
  /\ older_version = FALSE
  /\ intNofDigits = -1
  /\ tagTable = "none"
  /\ tupleHeader = << >>
  /\ intNofDataBytes = -1
  /\ fmt = NoFmt
  /\ intCalculatedNofBytes = -1
  /\ string_data = << >>
  /\ data = << >>
  /\ ndarrayValue = << >>

\* f.read(n) at position pos: the bytes returned.
ReadAt(pos, n) == Slice(file, pos, pos + n)

\* fileInput = open(filename,'rb')  /  FID = open(filename,'r')
Open ==
  /\ pc = "open"
  /\ handle' = "open"
  /\ fpos' = 0
  /\ ioLog' = Append(ioLog, "open")
  /\ pc' = "read"
  /\ UNCHANGED << impl, file, err, bytesHeader, markVars, headVars,
                  intNofDataBytes, outVars >>

\* bytesHeader = fileInput.read(511)  /  hdata = FID.read(511)
ReadHeader ==
  /\ pc = "read"
  /\ bytesHeader' = ReadAt(fpos, HeaderLen)
  /\ fpos' = fpos + Len(bytesHeader')
  /\ ioLog' = Append(ioLog, "read")
  /\ pc' = IF impl = "py3" THEN "find" ELSE "head"
  /\ UNCHANGED << impl, file, err, handle, markVars, headVars,
                  intNofDataBytes, outVars >>

\* FindMarker without the exit: the search result is used as it is.
FindMarkerNoExit ==
  /\ pc = "find"
  /\ LET loc1 == Find(bytesHeader, KeyCurv, 0)
         loc2 == Find(bytesHeader, KeyCurve, 0)
     IN  /\ intLocationOfColon' = IF loc1 = -1 THEN loc2 ELSE loc1
         /\ keylength' = IF loc1 = -1 THEN Len(KeyCurve) ELSE Len(KeyCurv)
         /\ older_version' = (loc1 = -1)
  /\ pc' = "cut" /\ err' = err
  /\ UNCHANGED << impl, file, ioVars, bytesHeader, intNofDigits, headVars,
                  intNofDataBytes, outVars >>

\* isfread_py3: the search for ':CURV #', then for ':CURVE #', and the exit
\* when neither is found.
FindMarker ==
  /\ pc = "find"
  /\ LET loc1 == Find(bytesHeader, KeyCurv, 0)
         loc2 == Find(bytesHeader, KeyCurve, 0)
     IN  /\ intLocationOfColon' = IF loc1 = -1 THEN loc2 ELSE loc1
         /\ keylength' = IF loc1 = -1 THEN Len(KeyCurve) ELSE Len(KeyCurv)
         /\ older_version' = (loc1 = -1)
  /\ IF intLocationOfColon' = -1
     THEN pc' = "exit" /\ err' = "MalformedHeader"
     ELSE pc' = "cut" /\ err' = err
  /\ UNCHANGED << impl, file, ioVars, bytesHeader, intNofDigits, headVars,
                  intNofDataBytes, outVars >>

\* CutHeader that cuts the header one byte short.
CutHeaderShort ==
  /\ pc = "cut"
  /\ LET at  == intLocationOfColon + keylength
         c   == bytesHeader[at + 1]
         cut == Slice(bytesHeader, 0, at + (c - 48))
     IN  IF at >= Len(bytesHeader)
         THEN /\ pc' = "exit" /\ err' = "IndexError"
              /\ UNCHANGED << intNofDigits, bytesHeader >>
         ELSE IF ~IsDigit(c)
         THEN /\ pc' = "exit" /\ err' = "ValueError"
              /\ UNCHANGED << intNofDigits, bytesHeader >>
         ELSE IF \E i \in 1..Len(cut) : cut[i] > 127
         THEN /\ pc' = "exit" /\ err' = "UnicodeDecodeError"
              /\ intNofDigits' = c - 48
              /\ bytesHeader' = cut
         ELSE /\ pc' = "head" /\ err' = err
              /\ intNofDigits' = c - 48
              /\ bytesHeader' = cut
  /\ UNCHANGED << impl, file, ioVars, intLocationOfColon, keylength,
                  older_version, headVars, intNofDataBytes, outVars >>

\* isfread_py3: the digit after the marker, the header cut after the block
\* length, and its decoding as UTF-8.  A byte above 127 in the cut header is
\* taken to be no valid UTF-8 (the modelled preambles are ASCII).
CutHeader ==
  /\ pc = "cut"
  /\ LET at  == intLocationOfColon + keylength
         c   == bytesHeader[at + 1]
         cut == Slice(bytesHeader, 0, at + 1 + (c - 48))
     IN  IF at >= Len(bytesHeader)
         THEN /\ pc' = "exit" /\ err' = "IndexError"
              /\ UNCHANGED << intNofDigits, bytesHeader >>
         ELSE IF ~IsDigit(c)
         THEN /\ pc' = "exit" /\ err' = "ValueError"
              /\ UNCHANGED << intNofDigits, bytesHeader >>
         ELSE IF \E i \in 1..Len(cut) : cut[i] > 127
         THEN /\ pc' = "exit" /\ err' = "UnicodeDecodeError"
              /\ intNofDigits' = c - 48
              /\ bytesHeader' = cut
         ELSE /\ pc' = "head" /\ err' = err
              /\ intNofDigits' = c - 48
              /\ bytesHeader' = cut
  /\ UNCHANGED << impl, file, ioVars, intLocationOfColon, keylength,
                  older_version, headVars, intNofDataBytes, outVars >>

\* isfread_py3: tupleHeader, from the table of the version found.
ExtractHeader ==
  /\ pc = "head" /\ impl = "py3"
  /\ tagTable' = IF older_version THEN "old" ELSE "new"
  /\ LET h == Header(bytesHeader, IF older_version THEN TagsOld ELSE TagsNew)
     IN  IF h.ok
         THEN tupleHeader' = << h.head >> /\ pc' = "digits" /\ err' = err
         ELSE tupleHeader' = tupleHeader /\ pc' = "exit" /\ err' = "ValueError"
  /\ UNCHANGED << impl, file, ioVars, bytesHeader, markVars, intNofDataBytes,
                  outVars >>

\* isfread_py3: fileInput.seek(...); intNofDataBytes = int(fileInput.read(...))
ReadDigits ==
  /\ pc = "digits"
  /\ LET pos == intLocationOfColon + keylength + 1
         got == ReadAt(pos, intNofDigits)
         n   == ParseInt(got)
     IN  /\ fpos' = pos + Len(got)
         /\ ioLog' = ioLog \o << "seek", "read" >>
         /\ IF n.ok
            THEN intNofDataBytes' = n.num.m /\ pc' = "fmt" /\ err' = err
            ELSE intNofDataBytes' = intNofDataBytes /\ pc' = "exit"
                 /\ err' = "ValueError"
  /\ UNCHANGED << impl, file, handle, bytesHeader, markVars, headVars,
                  outVars >>

\* Both versions: fmt = dict_endian[byteorder] + str(npts) + 'h' and
\* struct.calcsize(fmt).  A byte order that is no key raises KeyError; a
\* count written with a point or a sign is no struct format (struct.error).
MakeFormat ==
  /\ pc = "fmt"
  /\ LET h     == tupleHeader[1]
         order == dict_endian(h.byteorder)
     IN  IF order = ""
         THEN /\ pc' = "exit" /\ err' = "KeyError"
              /\ UNCHANGED << fmt, intCalculatedNofBytes >>
         ELSE IF h.npts.f \/ h.npts.m < 0
         THEN /\ pc' = "exit" /\ err' = "StructError"
              /\ UNCHANGED << fmt, intCalculatedNofBytes >>
         ELSE /\ pc' = "check" /\ err' = err
              /\ fmt' = [order |-> order, count |-> h.npts.m]
              /\ intCalculatedNofBytes' = SampleSize * h.npts.m
  /\ UNCHANGED << impl, file, ioVars, bytesHeader, markVars, headVars,
                  intNofDataBytes, string_data, data, ndarrayValue >>

\* isfread_py3: if intNofDataBytes != intCalculatedNofBytes: sys.exit(...)
CheckCount ==
  /\ pc = "check" /\ impl = "py3"
  /\ IF intNofDataBytes # intCalculatedNofBytes
     THEN pc' = "exit" /\ err' = "ByteCountMismatch"
     ELSE pc' = "data" /\ err' = err
  /\ UNCHANGED << impl, file, ioVars, bytesHeader, markVars, headVars,
                  intNofDataBytes, outVars >>

\* isfread_py3: the two reads of intCalculatedNofBytes bytes, and the
\* unpacking of the first; struct.error when it is shorter than the format.
ReadData ==
  /\ pc = "data" /\ impl = "py3"
  /\ LET sd  == ReadAt(fpos, intCalculatedNofBytes)
         sd2 == ReadAt(fpos + Len(sd), intCalculatedNofBytes)
     IN  /\ string_data' = sd
         /\ fpos' = fpos + Len(sd) + Len(sd2)
         /\ ioLog' = ioLog \o << "read", "read" >>
         /\ IF Len(sd) # intCalculatedNofBytes
            THEN pc' = "exit" /\ err' = "StructError" /\ data' = data
            ELSE pc' = "out" /\ err' = err
                 /\ data' = Unpack(fmt.order, fmt.count, sd)
  /\ UNCHANGED << impl, file, handle, bytesHeader, markVars, headVars,
                  intNofDataBytes, fmt, intCalculatedNofBytes, ndarrayValue >>

\* isfread_py3: the branch on the point format, the array, the close and
\* the return.  np.array of rows of different lengths either raises
\* ValueError or gives an array of the three lists as they are, depending
\* on the numpy installed.
Output ==
  /\ pc = "out" /\ impl = "py3"
  /\ LET h == tupleHeader[1]
     IN  IF h.pointformat = Str(<< "Y" >>)
         THEN /\ ndarrayValue' = NpArray(RowsY(h, h.npts.m, data))
              /\ handle' = "closed" /\ ioLog' = Append(ioLog, "close")
              /\ pc' = "done" /\ err' = err
         ELSE IF h.pointformat = Str(<< "E", "N", "V" >>)
         THEN LET rows == RowsENV(h, h.npts.m, data)
              IN  IF SameLength(rows)
                  THEN /\ ndarrayValue' = NpArray(rows)
                       /\ handle' = "closed" /\ ioLog' = Append(ioLog, "close")
                       /\ pc' = "done" /\ err' = err
                  ELSE \/ /\ ndarrayValue' = rows
                          /\ handle' = "closed"
                          /\ ioLog' = Append(ioLog, "close")
                          /\ pc' = "done" /\ err' = err
                       \/ /\ pc' = "exit" /\ err' = "ValueError"
                          /\ UNCHANGED << ndarrayValue, handle, ioLog >>
         ELSE /\ pc' = "exit" /\ err' = "UnsupportedPointFormat"
              /\ UNCHANGED << ndarrayValue, handle, ioLog >>
  /\ UNCHANGED << impl, file, fpos, bytesHeader, markVars, headVars,
                  intNofDataBytes, fmt, intCalculatedNofBytes, string_data,
                  data >>

\* isfread.py: head, from the whole of hdata with the full tag names.
LegacyHead ==
  /\ pc = "head" /\ impl = "py2"
  /\ tagTable' = "old"
  /\ LET h == Header(bytesHeader, TagsOld)
     IN  IF h.ok
         THEN tupleHeader' = << h.head >> /\ pc' = "gate" /\ err' = err
         ELSE tupleHeader' = tupleHeader /\ pc' = "exit" /\ err' = "ValueError"
  /\ UNCHANGED << impl, file, ioVars, bytesHeader, markVars, intNofDataBytes,
                  outVars >>

\* isfread.py: the header gate; it closes the file and prints, and the call
\* goes on.
LegacyGate ==
  /\ pc = "gate"
  /\ LET h == tupleHeader[1]
     IN  IF \/ ~NumEq(h.bytenum, IntNum(2))
            \/ ~NumEq(h.bitnum, IntNum(16))
            \/ h.encoding # Str(<< "B", "I", "N" >>)
            \/ h.binformat # Str(<< "R", "I" >>)
            \/ h.pointformat # Str(<< "Y" >>)
         THEN handle' = "closed" /\ ioLog' = Append(ioLog, "close")
         ELSE handle' = handle /\ ioLog' = ioLog
  /\ pc' = "skip"
  /\ UNCHANGED << impl, file, err, fpos, bytesHeader, markVars, headVars,
                  intNofDataBytes, outVars >>

\* isfread.py: ii = hdata.find(':CURVE #'); FID.seek(ii+8);
\* skip = int(FID.read(1)); n1 = int(FID.read(skip)).  A seek on a closed
\* file raises ValueError.
LegacySkip ==
  /\ pc = "skip"
  /\ LET ii  == Find(bytesHeader, KeyCurve, 0)
         c   == ReadAt(ii + 8, 1)
         sk  == ParseInt(c)
         got == ReadAt(ii + 8 + Len(c), sk.num.m)
         n   == ParseInt(got)
     IN  /\ intLocationOfColon' = ii
         /\ keylength' = 8
         /\ IF handle = "closed"
            THEN /\ ioLog' = Append(ioLog, "seek")
                 /\ pc' = "exit" /\ err' = "ValueError"
                 /\ UNCHANGED << fpos, intNofDigits, intNofDataBytes >>
            ELSE IF ~sk.ok
            THEN /\ ioLog' = ioLog \o << "seek", "read" >>
                 /\ fpos' = ii + 8 + Len(c)
                 /\ pc' = "exit" /\ err' = "ValueError"
                 /\ UNCHANGED << intNofDigits, intNofDataBytes >>
            ELSE /\ ioLog' = ioLog \o << "seek", "read", "read" >>
                 /\ fpos' = ii + 8 + Len(c) + Len(got)
                 /\ intNofDigits' = sk.num.m
                 /\ IF n.ok
                    THEN intNofDataBytes' = n.num.m /\ pc' = "fmt"
                         /\ err' = err
                    ELSE intNofDataBytes' = intNofDataBytes /\ pc' = "exit"
                         /\ err' = "ValueError"
  /\ UNCHANGED << impl, file, handle, bytesHeader, older_version, headVars,
                  outVars >>

\* isfread.py: if n1 != n2: print "WARNING: ..."; the call goes on.
LegacyWarn ==
  /\ pc = "check" /\ impl = "py2"
  /\ pc' = "data"
  /\ UNCHANGED << impl, file, err, ioVars, bytesHeader, markVars, headVars,
                  intNofDataBytes, outVars >>

\* isfread.py: string_data=FID.read(n2); data=struct.unpack(fmt,string_data)
LegacyReadData ==
  /\ pc = "data" /\ impl = "py2"
  /\ LET sd == ReadAt(fpos, intCalculatedNofBytes)
     IN  /\ string_data' = sd
         /\ fpos' = fpos + Len(sd)
         /\ ioLog' = Append(ioLog, "read")
         /\ IF Len(sd) # intCalculatedNofBytes
            THEN pc' = "exit" /\ err' = "StructError" /\ data' = data
            ELSE pc' = "out" /\ err' = err
                 /\ data' = Unpack(fmt.order, fmt.count, sd)
  /\ UNCHANGED << impl, file, handle, bytesHeader, markVars, headVars,
                  intNofDataBytes, fmt, intCalculatedNofBytes, ndarrayValue >>

\* isfread.py: v and x, FID.close() and the return of x, v, head.
LegacyOutput ==
  /\ pc = "out" /\ impl = "py2"
  /\ ndarrayValue' = RowsY(tupleHeader[1], tupleHeader[1].npts.m, data)
  /\ handle' = "closed"
  /\ ioLog' = Append(ioLog, "close")
  /\ pc' = "done"
  /\ UNCHANGED << impl, file, err, fpos, bytesHeader, markVars, headVars,
                  intNofDataBytes, fmt, intCalculatedNofBytes, string_data,
                  data >>

Next ==
  \/ Open
  \/ ReadHeader
  \/ FindMarker
  \/ CutHeader
  \/ ExtractHeader
  \/ ReadDigits
  \/ MakeFormat
  \/ CheckCount
  \/ ReadData
  \/ Output
  \/ LegacyHead
  \/ LegacyGate
  \/ LegacySkip
  \/ LegacyWarn
  \/ LegacyReadData
  \/ LegacyOutput

Spec == Init /\ [][Next]_vars

\* ------------------------------------------------------------------------
\* Properties
\* ------------------------------------------------------------------------

Terminated == pc \in {"done", "exit"}

\* a < b, for two exact decimals.
NumLt(a, b) == a.m * Pow10(b.e) < b.m * Pow10(a.e)

\* t occurs in s.
Occurs(t, s) ==
  \E i \in 0..(Len(s) - Len(t)) : \A j \in 1..Len(t) : s[i + j] = t[j]

\* The first HeaderLen bytes of the file.
FileHead == SubSeq(file, 1, IF Len(file) < HeaderLen THEN Len(file) ELSE HeaderLen)

\* C1: in both versions, once the written block length has been compared
\* with the computed one and they differ, the call has ended in the
\* ByteCountMismatch exit, with no sample byte read, no sample unpacked and
\* no series returned.
C1_MismatchIsFatal ==
  (/\ intCalculatedNofBytes # -1
   /\ intNofDataBytes # intCalculatedNofBytes
   /\ pc # "check")
  => (/\ pc = "exit" /\ err = "ByteCountMismatch"
      /\ string_data = << >> /\ data = << >> /\ ndarrayValue = << >>)

\* C2: whenever a call has ended, by return or by any failure, its file
\* handle is closed.
C2_ClosedOnEveryExit == Terminated => handle = "closed"

\* C3: in isfread_py3, when neither marker occurs in the first 511 bytes,
\* the call ends in the MalformedHeader exit right after the search: the
\* buffer is left as read, no digit count and no header field is extracted,
\* the file is not read again and nothing is returned.
C3_NoMarkerIsMalformedHeader ==
  LET head == FileHead
  IN
  (/\ impl = "py3"
   /\ pc \notin {"open", "read", "find"}
   /\ ~Occurs(KeyCurv, head) /\ ~Occurs(KeyCurve, head))
  => (/\ pc = "exit" /\ err = "MalformedHeader"
      /\ bytesHeader = head
      /\ intNofDigits = -1 /\ tagTable = "none" /\ tupleHeader = << >>
      /\ ioLog = << "open", "read" >> /\ fpos = Len(head)
      /\ intNofDataBytes = -1 /\ string_data = << >> /\ data = << >>
      /\ ndarrayValue = << >>)

\* A file with some content and no marker has been given up by isfread_py3.
C3_Witness ==
  /\ impl = "py3" /\ pc = "exit" /\ err = "MalformedHeader"
  /\ Len(file) > HeaderLen \div 4
  /\ LET head == FileHead
     IN  ~Occurs(KeyCurv, head) /\ ~Occurs(KeyCurve, head)

\* The tag table of the version isfread_py3 found.
SelectedTags == IF older_version THEN TagsOld ELSE TagsNew

\* C4: in isfread_py3, once the header has been read from a cut preamble
\* in which one of the 16 tags of the selected table does not occur, the
\* call has failed and no header record exists.
C4_MissingTagIsError ==
  (/\ impl = "py3"
   /\ tagTable # "none"
   /\ \E k \in Keys : ~Occurs(SelectedTags[k], bytesHeader))
  => (pc = "exit" /\ tupleHeader = << >>)

\* C5: after a successful decode by isfread_py3 the series has 2 rows of
\* npts elements for point format 'Y', and 3 rows of npts div 2 elements
\* for 'ENV'.
C5_RowsOfOneLength ==
  (impl = "py3" /\ pc = "done")
  => LET h == tupleHeader[1]
         n == IF h.pointformat = Str(<< "Y" >>) THEN h.npts.m
              ELSE h.npts.m \div 2
     IN  /\ Len(ndarrayValue) = IF h.pointformat = Str(<< "Y" >>) THEN 2 ELSE 3
         /\ \A r \in 1..Len(ndarrayValue) : Len(ndarrayValue[r]) = n

\* Where the data block of the file starts: after the marker the version
\* looks for (at its first occurrence in the first HeaderLen bytes), the
\* digit count written after it, and that many digits.
BlockStart ==
  LET head == FileHead
      key  == IF impl = "py3" /\ Occurs(KeyCurv, head) THEN KeyCurv
              ELSE KeyCurve
      at   == Min({ i \in 0..(Len(head) - Len(key)) :
                      \A j \in 1..Len(key) : head[i + j] = key[j] })
  IN  at + Len(key) + 1 + (file[at + Len(key) + 1] - 48)

\* The i-th raw sample (from 0) of the data block starting at start: the
\* signed 16-bit integer of its byte pair in the byte order the header names.
RawSample(start, i) ==
  LET b0 == file[start + 2 * i + 1]
      b1 == file[start + 2 * i + 2]
      u  == IF tupleHeader[1].byteorder = Str(<< "M", "S", "B" >>)
            THEN 256 * b0 + b1 ELSE b0 + 256 * b1
  IN  IF u >= 32768 THEN u - 65536 ELSE u

\* yZero + yMultiplier x (r - yOffset)
Scaled(r) ==
  LET h == tupleHeader[1]
  IN  Add(h.yzero, Mul(h.ymult, Sub(IntNum(r), h.yoff)))

IsY == tupleHeader[1].pointformat = Str(<< "Y" >>)

\* C6: after a successful decode every value is the scaling of one raw
\* sample: for 'Y' the row of values has npts elements and its i-th is the
\* scaling of raw sample i; for 'ENV' the i-th minimum is the scaling of raw
\* sample 2i and the i-th maximum that of raw sample 2i+1, for every
\* element of the two rows, which hold at least npts div 2 elements each.
C6_ValuesAreScaledSamples ==
  (pc = "done")
  => LET n     == tupleHeader[1].npts.m
         start == BlockStart
     IN  IF IsY
         THEN /\ Len(ndarrayValue[2]) = n
              /\ \A i \in 0..(n - 1) :
                   NumEq(ndarrayValue[2][i + 1], Scaled(RawSample(start, i)))
         ELSE /\ Len(ndarrayValue[2]) >= n \div 2
              /\ Len(ndarrayValue[3]) >= n \div 2
              /\ \A i \in 0..(Len(ndarrayValue[2]) - 1) :
                   NumEq(ndarrayValue[2][i + 1], Scaled(RawSample(start, 2 * i)))
              /\ \A i \in 0..(Len(ndarrayValue[3]) - 1) :
                   NumEq(ndarrayValue[3][i + 1], Scaled(RawSample(start, 2 * i + 1)))

\* An envelope of two or more pairs in big-endian order has been decoded,
\* with a negative sample, a non-zero offset and a non-zero yzero.
C6_Witness ==
  /\ pc = "done" /\ ~IsY
  /\ tupleHeader[1].byteorder = Str(<< "M", "S", "B" >>)
  /\ Len(ndarrayValue[3]) >= 2
  /\ \E i \in 1..Len(data) : data[i] < 0
  /\ tupleHeader[1].yoff.m # 0 /\ tupleHeader[1].yzero.m # 0

SyntheticSeries ==
  /\ Len(ndarrayValue) = 2
  /\ Len(ndarrayValue[1]) = 4 /\ Len(ndarrayValue[2]) = 4
  /\ \A i \in 1..4 : NumEq(ndarrayValue[1][i], IntNum(i - 1))
  /\ NumEq(ndarrayValue[2][1], IntNum(20))
  /\ NumEq(ndarrayValue[2][2], IntNum(-10))
  /\ NumEq(ndarrayValue[2][3], IntNum(0))
  /\ NumEq(ndarrayValue[2][4], IntNum(200))

SyntheticDecoded ==
  /\ pc = "done"
  /\ NumEq(tupleHeader[1].npts, IntNum(4))
  /\ tupleHeader[1].byteorder = Str(<< "L", "S", "B" >>)
  /\ SyntheticSeries

\* C8 as stated: the call on the synthetic file whose tags are joined to
\* their values by '=' ends with pointCount 4, byteOrder 'LSB' and the
\* series of the scenario.
C8_SyntheticWithEquals ==
  (file = SyntheticFile(Str(<< "=" >>)) /\ Terminated) => SyntheticDecoded

\* C8 amended: the call on the synthetic file whose tags are joined to
\* their values by a space ends with pointCount 4, byteOrder 'LSB' and the
\* series of the scenario, in both versions.
C8_SyntheticWithSpaces ==
  (file = SyntheticFile(Str(<< " " >>)) /\ Terminated) => SyntheticDecoded

\* isfread_py3 has returned from the synthetic file written with spaces.
C8_Witness ==
  /\ file = SyntheticFile(Str(<< " " >>)) /\ impl = "py3" /\ pc = "done"
  /\ ndarrayValue # << >>

\* What C9 says of isfread_py3 once the header has been read, with the
\* text scanned for tags ending at textEnd(start, n), for start the place
\* where the data block starts and n the number of bytes read at first:
\* the table used is the abbreviated one if ':CURV #' occurs in the first
\* HeaderLen bytes and the full one otherwise; the text is the file up to
\* textEnd and so holds no byte of the data block; the block length is the
\* number written by the digits that end at start; the sample bytes are
\* the bytes of the file from start on.
MarkerContract(textEnd(_, _)) ==
  (impl = "py3" /\ tagTable # "none")
  => LET head  == FileHead
         key   == IF Occurs(KeyCurv, head) THEN KeyCurv ELSE KeyCurve
         at    == Min({ i \in 0..(Len(head) - Len(key)) :
                          \A j \in 1..Len(key) : head[i + j] = key[j] })
         nd    == file[at + Len(key) + 1] - 48
         start == at + Len(key) + 1 + nd
     IN  /\ tagTable = IF Occurs(KeyCurv, head) THEN "new" ELSE "old"
         /\ Occurs(key, head)
         /\ bytesHeader = SubSeq(file, 1, textEnd(start, Len(head)))
         /\ Len(bytesHeader) <= start
         /\ intNofDataBytes # -1
              => intNofDataBytes
                   = DigitsToNat(SubSeq(file, start - nd + 1, start))
         /\ Len(ioLog) >= 6
              => string_data
                   = Slice(file, start, start + intCalculatedNofBytes)

ExactEnd(start, n) == start
EndWithinBuffer(start, n) == IF start < n THEN start ELSE n

\* C9 as stated: the text scanned for tags ends exactly where the data
\* block starts.
C9_TextEndsAtBlockStart == MarkerContract(ExactEnd)

\* C9 amended: the text scanned for tags ends where the data block starts,
\* or at the end of the 511 bytes read when the block starts beyond them.
C9_TextEndsAtBlockStartOrBufferEnd == MarkerContract(EndWithinBuffer)

\* isfread_py3 has decoded an older-version file, read with the full tags,
\* whose data block starts at the end of the 511 bytes read or beyond it.
C9_Witness ==
  /\ impl = "py3" /\ pc = "done" /\ tagTable = "old"
  /\ Len(bytesHeader) = HeaderLen
  /\ Occurs(KeyCurve, bytesHeader)
  /\ Len(string_data) >= SampleSize

MSBorLSB(bo) == bo \in { Str(<< "M", "S", "B" >>), Str(<< "L", "S", "B" >>) }
YorENV(pf) == pf \in { Str(<< "Y" >>), Str(<< "E", "N", "V" >>) }

\* C10: isfread_py3 returns only for a byte order 'MSB' or 'LSB' and a
\* point format 'Y' or 'ENV'.  With another byte order the call has ended,
\* once past the format step, without a sample byte read and without a
\* result, in KeyError (the byte order is no key of dict_endian) unless the
\* block length before it could not be read.  With another point format the
\* ended call has no result, and it ended in the UnsupportedPointFormat
\* exit unless an earlier step failed (block length, byte count, data).
C10_OrderAndFormatGate ==
  (impl = "py3" /\ tupleHeader # << >>)
  => LET h == tupleHeader[1]
     IN  /\ pc = "done" => MSBorLSB(h.byteorder) /\ YorENV(h.pointformat)
         /\ (~MSBorLSB(h.byteorder) /\ pc \notin {"digits", "fmt"})
              => /\ pc = "exit" /\ ndarrayValue = << >>
                 /\ string_data = << >> /\ data = << >>
                 /\ ioLog = << "open", "read", "seek", "read" >>
                 /\ err = IF intNofDataBytes = -1 THEN "ValueError"
                          ELSE "KeyError"
         /\ (MSBorLSB(h.byteorder) /\ ~YorENV(h.pointformat) /\ Terminated)
              => /\ pc = "exit" /\ ndarrayValue = << >>
                 /\ (/\ intCalculatedNofBytes # -1
                     /\ intNofDataBytes = intCalculatedNofBytes
                     /\ Len(string_data) = intCalculatedNofBytes)
                      => err = "UnsupportedPointFormat"

\* isfread_py3 has given up on a byte order that is neither MSB nor LSB.
C10_Witness ==
  /\ impl = "py3" /\ pc = "exit" /\ err = "KeyError"
  /\ tupleHeader # << >>
  /\ ~MSBorLSB(tupleHeader[1].byteorder)
  /\ YorENV(tupleHeader[1].pointformat)

\* C11: within one call no seek or read is made on the file object after
\* its close, and close is called at most once: in the calls made on the
\* file object, in order, nothing follows a close.  In isfread.py this
\* covers the header gate, which closes FID and lets the call go on.
C11_NoUseAfterClose ==
  \A i \in 1..Len(ioLog) :
    ioLog[i] = "close" => i = Len(ioLog)

=============================================================================
